---- MODULE Spec2Model ----
(***************************************************************************)
(* Envelope / ack / stream protocol and repository-teardown pipeline of    *)
(* the tamagotchi backend (src/backend/core/sockets, src/backend/core/     *)
(* teardown).                                                              *)
(*                                                                         *)
(* One asyncio event loop runs everything.  A start handler is synchronous *)
(* code (no await between validation and the returned acknowledgement), so *)
(* it is one action.  A task created with asyncio.create_task advances one *)
(* action per await (one backend item, one sio.emit).                      *)
(*                                                                         *)
(* Modelling conventions                                                   *)
(*  - uuid.uuid4() is a fresh value: a counter (nextUuid).                 *)
(*  - `Envelope[T].model_validate(e)` validates the envelope structure and *)
(*    the payload against T; `Envelope(...)` validates its literals.       *)
(*  - The repository has two codec modules: sockets/envelope_type.py       *)
(*    (Actor = assistant|coder|writer) and sockets/types/envelope.py       *)
(*    (imported by sockets/actors/*, closed set of the four actors).  The  *)
(*    variable actorSet is the actor set of the codec the process loaded.  *)
(*  - process_repo_url's result is read by field name (cached_file_path,   *)
(*    temp_dir, metadata), as handle_repo_teardown does.                   *)
(***************************************************************************)
EXTENDS Integers, Sequences, FiniteSets, TLC

VARIABLES
    actorSet,   \* Actor literal of the loaded Envelope codec
    nextUuid,   \* number of uuid4() stream ids minted so far
    budget,     \* start requests the clients have still to send
    tasks,      \* tasks created with asyncio.create_task, in creation order;
                \* tasks[t].sent is what the transport was handed for the
                \* start that created task t, in order: its ack, then emits
    last,       \* the start-handler invocation of the previous step, if it was one
    folders,    \* data dir: existing <full_name>/<sha> folders
    analyses,   \* data dir: <full_name>/<sha>/analysis.md files and their content
    tempDirs,   \* working directories that exist on disk
    nextTemp,   \* number of mkdtemp() calls so far
    active_connections, \* setup.py: sids of the connected clients
    storage,    \* a storage adaptor instance and what its store holds
    wire,       \* an Envelope instance, its JSON encoding and the decoding of that
    sessions    \* socket.io server: sids of the sessions that are open

vars == <<actorSet, nextUuid, budget, tasks, last,
          folders, analyses, tempDirs, nextTemp, active_connections,
          storage, wire, sessions>>

-----------------------------------------------------------------------------
(* Bounds *)

MaxStarts == 1     \* start requests in a run of Spec
MaxCalls == 2      \* start requests in a run of StartSpec
MaxChunks == 2     \* items a generation backend yields before its end-of-run
MaxBlocks == 2     \* content blocks of one generation message
MaxRuns == 2       \* teardown requests in a run of RepeatSpec

-----------------------------------------------------------------------------
(* Values *)

None == "None"
Missing == "missing"
NoneSeq == -1
NoneId == 0

Sids == {"c1", "c2"}
RequestIds == {"r1", "r2"}

Direction == {"c2s", "s2c"}
Actor == {"assistant", "coder", "writer"}
ActorV2 == {"assistant", "coder", "writer", "claude"}
Action == {"stream"}
Modifier == {"start", "chunk", "end"}

MAX_REPO_SIZE_MB == 100
OPERATION_TIMEOUT == 3600
FinishReasons == {"stop", "length"}
NoDelta == 0

-----------------------------------------------------------------------------
(* Repository references and metadata *)

NoUrl == [form |-> "absent", owner |-> "", repo |-> <<>>, dotGit |-> FALSE]
EmptyUrl == [form |-> "empty", owner |-> "", repo |-> <<>>, dotGit |-> FALSE]
NoPath == <<>>

RepoUrls ==
    { [form |-> "https", owner |-> "o", repo |-> <<"r">>, dotGit |-> FALSE],
      [form |-> "ssh",   owner |-> "o", repo |-> <<"r">>, dotGit |-> TRUE],
      [form |-> "other", owner |-> "o", repo |-> <<"r">>, dotGit |-> FALSE] }

Shas == {"x", "y"}
Artifacts == { <<>>, <<"a">>, <<"a", "b">>, <<"CR", "LF">> }

\* re.match against the https and the ssh pattern; (?:\.git)? drops the suffix
extract_repo_info(url) ==
    IF url.form \in {"https", "ssh"}
    THEN [ok |-> TRUE, owner |-> url.owner, repo |-> url.repo]
    ELSE [ok |-> FALSE, owner |-> "", repo |-> <<>>]

\* What the GitHub API can answer for owner/repo_name
MetadataAnswers(owner, repo) ==
    { [accessible |-> FALSE, full_name |-> <<owner, repo>>, size |-> 0,
       archived |-> FALSE, disabled |-> FALSE, sha |-> "x"] }
    \cup
    { [accessible |-> TRUE, full_name |-> <<owner, repo>>, size |-> sz,
       archived |-> ar, disabled |-> di, sha |-> sh] :
         sz \in {MAX_REPO_SIZE_MB * 1024, MAX_REPO_SIZE_MB * 1024 + 1},
         ar \in BOOLEAN, di \in BOOLEAN, sh \in Shas }

\* A policy that also turns archived repositories away
should_clone_repo_unarchived(metadata) ==
    IF metadata.size > MAX_REPO_SIZE_MB * 1024 THEN FALSE
    ELSE IF metadata.disabled \/ metadata.archived THEN FALSE
    ELSE TRUE

should_clone_repo(metadata) ==
    IF metadata.size > MAX_REPO_SIZE_MB * 1024 THEN FALSE
    ELSE IF metadata.disabled THEN FALSE
    ELSE TRUE

compute_repo_hash(metadata) == metadata.sha

IsPrefix(s, t) == Len(s) <= Len(t) /\ SubSeq(t, 1, Len(s)) = s

\* A lookup that never finds the repository's folder
check_if_repo_folder_exists_never(metadata, fs) == FALSE

\* data_dir.glob(f"{full_name}*"): any entry under data/<owner>/ whose name
\* starts with the repository name
check_if_repo_folder_exists(metadata, fs) ==
    \E f \in fs : f[1][1] = metadata.full_name[1]
                  /\ IsPrefix(metadata.full_name[2], f[1][2])

find_cached_teardown(metadata, repo_hash, files) ==
    IF <<metadata.full_name, repo_hash>> \in DOMAIN files
    THEN <<metadata.full_name, repo_hash>>
    ELSE NoPath

get_teardown_folder_path(metadata) == <<metadata.full_name, metadata.sha>>

\* No metadata resolved (yet)
NoMetadata ==
    [accessible |-> FALSE, full_name |-> <<"", <<>>>>, size |-> 0,
     archived |-> FALSE, disabled |-> FALSE, sha |-> ""]

\* The reason should_clone_repo returns with its verdict
should_clone_reason(metadata) ==
    IF metadata.size > MAX_REPO_SIZE_MB * 1024 THEN "too_large"
    ELSE IF metadata.disabled THEN "disabled"
    ELSE "suitable"

\* open(path, "r").read(): text mode with universal newlines, "\r\n" and
\* "\r" are read as "\n"
RECURSIVE read_text(_)
read_text(bytes) ==
    IF bytes = <<>> THEN <<>>
    ELSE IF Head(bytes) = "CR"
    THEN IF Len(bytes) >= 2 /\ bytes[2] = "LF"
         THEN <<"LF">> \o read_text(Tail(Tail(bytes)))
         ELSE <<"LF">> \o read_text(Tail(bytes))
    ELSE <<Head(bytes)>> \o read_text(Tail(bytes))

-----------------------------------------------------------------------------
(* Client start envelopes *)

NoData == [shape |-> "scalar", items |-> "na", history |-> "absent",
           query |-> "absent", repoUrl |-> NoUrl]

ClientData ==
    { NoData,
      [NoData EXCEPT !.shape = "list", !.items = "valid"],
      [NoData EXCEPT !.shape = "list", !.items = "invalid"],
      [NoData EXCEPT !.shape = "dict"],
      [NoData EXCEPT !.shape = "dict", !.history = "valid"],
      [NoData EXCEPT !.shape = "dict", !.history = "invalid"],
      [NoData EXCEPT !.shape = "dict", !.query = "text"],
      [NoData EXCEPT !.shape = "dict", !.query = "empty"],
      [NoData EXCEPT !.shape = "dict", !.query = "text", !.repoUrl = EmptyUrl] }
    \cup
    { [NoData EXCEPT !.shape = "dict", !.query = "text", !.repoUrl = u] :
        u \in RepoUrls }

ControlDefects(e) ==
    Cardinality({ f \in {"direction", "actor", "action", "modifier"} :
                    e[f] = Missing })
    + (IF e.requestId = None THEN 1 ELSE 0)

\* A client envelope has at most one missing field
ClientEnvelopes ==
    { e \in [requestId : RequestIds \cup {None},
             direction : {"c2s", Missing},
             actor     : {"assistant", "claude", Missing},
             action    : {"stream", Missing},
             modifier  : {"start", Missing},
             data      : ClientData] : ControlDefects(e) <= 1 }

\* Well-formed start envelopes, with and without a request id
StreamEnvelopes ==
    { e \in ClientEnvelopes :
        /\ e.direction = "c2s" /\ e.action = "stream" /\ e.modifier = "start"
        /\ e.actor # Missing
        /\ \/ e.data.shape = "list" /\ e.data.items = "valid"
           \/ e.data.history = "valid"
           \/ e.data.query = "text" /\ e.data.repoUrl.form # "empty" }

\* Payload types
DataValid(data, T) ==
    CASE T = "Envelope" ->
           \/ data.shape = "dict"
           \/ data.shape = "list" /\ data.items = "valid"
      [] T = "history" ->
           data.shape = "dict" /\ data.history = "valid"
      [] T = "ClaudeSDKRequest" ->
           data.shape = "dict" /\ data.query \in {"text", "empty"}

\* A codec whose control fields are optional
model_validate_optional(e, T, actors) ==
    /\ e.direction \in Direction \cup {Missing}
    /\ e.actor \in actors \cup {Missing}
    /\ e.action \in Action \cup {Missing}
    /\ e.modifier \in Modifier \cup {Missing}
    /\ DataValid(e.data, T)

\* Envelope[T].model_validate(envelope) does not raise ValidationError
model_validate(e, T, actors) ==
    /\ e.direction \in Direction
    /\ e.actor \in actors
    /\ e.action \in Action
    /\ e.modifier \in Modifier
    /\ DataValid(e.data, T)

-----------------------------------------------------------------------------
(* envelope_type.py: the Envelope codec on values.  Python values and JSON  *)
(* values are tagged records, so that None, a string and a number differ    *)

PyNone == [py |-> "None"]
PyStr(x) == [py |-> "str", str |-> x]
PyInt(n) == [py |-> "int", int |-> n]
PyDict(f) == [py |-> "dict", dict |-> f]
PyList(q) == [py |-> "list", list |-> q]
PyTuple(q) == [py |-> "tuple", tuple |-> q]
PyMessage(role, content) == [py |-> "Message", role |-> role, content |-> content]
PyErrorDetails(code, message) == [py |-> "ErrorDetails", code |-> code, message |-> message, details |-> PyNone]

\* What validation answers when it raises ValidationError
Invalid == [py |-> "ValidationError"]

JNull == [json |-> "null"]
JString(x) == [json |-> "string", string |-> x]
JNumber(n) == [json |-> "number", number |-> n]
JObject(f) == [json |-> "object", object |-> f]
JArray(q) == [json |-> "array", array |-> q]
JAbsent == [json |-> "absent"]

EnvelopeFieldNames ==
    {"v", "id", "ts", "request_id", "stream_id", "seq",
     "direction", "actor", "action", "modifier", "data", "error"}

\* pydantic.alias_generators.to_camel on the field names of Envelope
to_camel(field) ==
    CASE field = "request_id" -> "requestId"
      [] field = "stream_id" -> "streamId"
      [] OTHER -> field

\* Serialisation of a Python value to JSON
RECURSIVE to_json(_)
to_json(x) ==
    CASE x.py = "None" -> JNull
      [] x.py = "str" -> JString(x.str)
      [] x.py = "int" -> JNumber(x.int)
      [] x.py = "dict" -> JObject([k \in DOMAIN x.dict |-> to_json(x.dict[k])])
      [] x.py = "list" -> JArray([i \in DOMAIN x.list |-> to_json(x.list[i])])
      [] x.py = "tuple" -> JArray([i \in DOMAIN x.tuple |-> to_json(x.tuple[i])])
      [] x.py = "Message" ->
           JObject([k \in {"role", "content"} |->
                      IF k = "role" THEN JString(x.role) ELSE JString(x.content)])
      [] x.py = "ErrorDetails" ->
           JObject([k \in {"code", "message", "details"} |->
                      IF k = "code" THEN JString(x.code)
                      ELSE IF k = "message" THEN JString(x.message)
                      ELSE to_json(x.details)])

\* AliasedBaseModel.model_dump_json: every field, under its camelCase alias
Envelope_model_dump_json(e) ==
    JObject([k \in { to_camel(f) : f \in EnvelopeFieldNames } |->
               to_json(e[CHOOSE f \in EnvelopeFieldNames : to_camel(f) = k])])

\* json.loads on a value: what a `dict` field keeps of it
RECURSIVE from_json(_)
from_json(j) ==
    CASE j.json = "null" -> PyNone
      [] j.json = "string" -> PyStr(j.string)
      [] j.json = "number" -> PyInt(j.number)
      [] j.json = "object" -> PyDict([k \in DOMAIN j.object |-> from_json(j.object[k])])
      [] j.json = "array" -> PyList([i \in DOMAIN j.array |-> from_json(j.array[i])])

MessageRoles == {"user", "assistant", "human", "generative"}

ErrorCodes ==
    {"E_INVALID", "E_UNAUTHORIZED", "E_FORBIDDEN", "E_NOT_FOUND", "E_CONFLICT",
     "E_RATE_LIMITED", "E_TIMEOUT", "E_OVERFLOW", "E_UNAVAILABLE", "E_INTERNAL"}

\* field: str with a default
validate_str(j, default) ==
    IF j.json = "absent" THEN default
    ELSE IF j.json = "string" THEN PyStr(j.string) ELSE Invalid

\* field: int with a default
validate_int(j, default) ==
    IF j.json = "absent" THEN default
    ELSE IF j.json = "number" THEN PyInt(j.number) ELSE Invalid

\* field: str | None = None
validate_optional_str(j) ==
    IF j.json \in {"absent", "null"} THEN PyNone
    ELSE IF j.json = "string" THEN PyStr(j.string) ELSE Invalid

\* field: int | None = None
validate_optional_int(j) ==
    IF j.json \in {"absent", "null"} THEN PyNone
    ELSE IF j.json = "number" THEN PyInt(j.number) ELSE Invalid

\* field: Literal[...], required
validate_literal(j, values) ==
    IF j.json = "string" /\ j.string \in values THEN PyStr(j.string) ELSE Invalid

\* Message.model_validate
validate_message(j) ==
    IF /\ j.json = "object"
       /\ {"role", "content"} \subseteq DOMAIN j.object
       /\ j.object["role"].json = "string"
       /\ j.object["role"].string \in MessageRoles
       /\ j.object["content"].json = "string"
    THEN PyMessage(j.object["role"].string, j.object["content"].string)
    ELSE Invalid

\* field data: dict | list[Message], required
validate_data(j) ==
    IF j.json = "object" THEN from_json(j)
    ELSE IF j.json = "array"
    THEN LET items == [i \in DOMAIN j.array |-> validate_message(j.array[i])]
         IN IF \E i \in DOMAIN items : items[i] = Invalid THEN Invalid
            ELSE PyList(items)
    ELSE Invalid

\* field error: ErrorDetails | None = None
validate_error(j) ==
    IF j.json \in {"absent", "null"} THEN PyNone
    ELSE IF /\ j.json = "object"
            /\ {"code", "message"} \subseteq DOMAIN j.object
            /\ j.object["code"].json = "string"
            /\ j.object["code"].string \in ErrorCodes
            /\ j.object["message"].json = "string"
            /\ "details" \in DOMAIN j.object => j.object["details"].json = "null"
    THEN PyErrorDetails(j.object["code"].string, j.object["message"].string)
    ELSE Invalid

\* default_factory of id and ts: a value minted at validation time
FreshId == PyStr("uuid4()")
Now == PyInt(-1)

\* The fields of an Envelope validated from what lookup finds for each field
Envelope_from(lookup(_)) ==
    LET e == [v         |-> validate_str(lookup("v"), PyStr("1")),
              id        |-> validate_str(lookup("id"), FreshId),
              ts        |-> validate_int(lookup("ts"), Now),
              request_id |-> validate_optional_str(lookup("request_id")),
              stream_id |-> validate_optional_str(lookup("stream_id")),
              seq       |-> validate_optional_int(lookup("seq")),
              direction |-> validate_literal(lookup("direction"), Direction),
              actor     |-> validate_literal(lookup("actor"), Actor),
              action    |-> validate_literal(lookup("action"), Action),
              modifier  |-> validate_literal(lookup("modifier"), Modifier),
              data      |-> validate_data(lookup("data")),
              error     |-> validate_error(lookup("error"))]
    IN IF \E f \in EnvelopeFieldNames : e[f] = Invalid THEN Invalid ELSE e

\* A codec that reads every field under its Python name only
Envelope_model_validate_by_name(j) ==
    IF j.json # "object" THEN Invalid
    ELSE LET lookup(f) == IF f \in DOMAIN j.object THEN j.object[f] ELSE JAbsent
         IN Envelope_from(lookup)

\* Envelope.model_validate(json.loads(text)): alias_generator=to_camel with
\* populate_by_name=True reads a field under its alias or under its name
Envelope_model_validate(j) ==
    IF j.json # "object" THEN Invalid
    ELSE LET lookup(f) == IF to_camel(f) \in DOMAIN j.object THEN j.object[to_camel(f)]
                          ELSE IF f \in DOMAIN j.object THEN j.object[f]
                          ELSE JAbsent
         IN Envelope_from(lookup)

\* A Python value that json.loads can produce
RECURSIVE IsJsonNative(_)
IsJsonNative(x) ==
    CASE x.py \in {"None", "str", "int"} -> TRUE
      [] x.py = "dict" -> \A k \in DOMAIN x.dict : IsJsonNative(x.dict[k])
      [] x.py = "list" -> \A i \in DOMAIN x.list : IsJsonNative(x.list[i])
      [] OTHER -> FALSE

\* Payloads an Envelope instance accepts for its field data
Payloads ==
    { PyDict(<<>>),
      PyDict([k \in {"delta"} |-> PyStr("a")]),
      PyDict([k \in {"finish_reason", "error"} |->
                IF k = "error" THEN PyNone ELSE PyStr("stop")]),
      PyDict([k \in {"delta"} |-> PyTuple(<<PyStr("a")>>)]),
      PyList(<<>>),
      PyList(<<PyMessage("user", "hi")>>) }

\* Envelope instances
EnvelopeInstances ==
    [v : {PyStr("1")},
     id : {PyStr("i1")},
     ts : {PyInt(0), PyInt(5)},
     request_id : {PyNone, PyStr("r1")},
     stream_id : {PyNone, PyStr("s1")},
     seq : {PyNone, PyInt(0), PyInt(1)},
     direction : { PyStr(d) : d \in Direction },
     actor : { PyStr(a) : a \in Actor },
     action : { PyStr(a) : a \in Action },
     modifier : { PyStr(m) : m \in Modifier },
     data : Payloads,
     error : {PyNone, PyErrorDetails("E_INTERNAL", "m")}]

\* Nothing is being encoded
NoWire == [pc |-> "idle", e |-> Invalid, json |-> JAbsent, decoded |-> Invalid]

-----------------------------------------------------------------------------
(* Records handed to the transport *)

AckOk(sid, request_id, stream_id) ==
    [type |-> "ack", to |-> sid, ok |-> TRUE, code |-> None,
     requestId |-> request_id, streamId |-> stream_id, seq |-> NoneSeq,
     event |-> <<>>, actor |-> None, modifier |-> None,
     finishReason |-> None, delta |-> NoDelta, error |-> None]

AckFail(sid, code) ==
    [type |-> "ack", to |-> sid, ok |-> FALSE, code |-> code,
     requestId |-> None, streamId |-> NoneId, seq |-> NoneSeq,
     event |-> <<>>, actor |-> None, modifier |-> None,
     finishReason |-> None, delta |-> NoDelta, error |-> None]

\* Envelope(...) serialised and given to
\* sio.emit(f"s2c.{eventActor}.stream.{modifier}", ..., to=sid)
Envelope(sid, request_id, stream_id, seq, eventActor, actor, modifier, finish, delta) ==
    [type |-> "env", to |-> sid, ok |-> TRUE, code |-> None,
     requestId |-> request_id, streamId |-> stream_id, seq |-> seq,
     event |-> <<"s2c", eventActor, "stream", modifier>>,
     actor |-> actor, modifier |-> modifier,
     finishReason |-> finish, delta |-> delta, error |-> None]

-----------------------------------------------------------------------------
(* Tasks *)

\* The coroutine object handed to asyncio.create_task: nothing of it has run
Coroutine(kind, sid, request_id, stream_id, actor, url, cwd) ==
    [kind |-> kind, sid |-> sid, requestId |-> request_id,
     ackStreamId |-> stream_id, streamId |-> stream_id, actor |-> actor,
     pc |-> "start", seq |-> 0, got |-> 0, fin |-> FALSE,
     url |-> url, cwd |-> cwd, repoDir |-> 0, key |-> NoPath,
     blocks |-> <<>>, isResult |-> FALSE, content |-> <<>>, sent |-> <<>>,
     metadata |-> NoMetadata, lookup |-> None, steps |-> {}, made |-> {},
     error |-> None, elapsed |-> 0]

\* An emit that overtakes the ones before it
Send_overtaking(T, m) == [T EXCEPT !.sent = <<m>> \o @]

\* await sio.emit(event, envelope.model_dump_json(), to=sid)
Send(T, m) == [T EXCEPT !.sent = Append(@, m)]

\* `await coro` in place of asyncio.create_task(coro): the generation has
\* run to its end when the handler returns
create_task_awaited(coro) ==
    Send([coro EXCEPT !.pc = "done", !.fin = TRUE],
         Envelope(coro.sid, coro.requestId, coro.ackStreamId, 1, coro.actor,
                  coro.actor, "end", "stop", NoDelta))

\* asyncio.create_task(coro): the task is scheduled, it runs after the
\* handler has returned
create_task(coro) == coro

Call(handler, sid, e, outcome, code, minted, spawned, stream_id) ==
    [handler |-> handler, sid |-> sid, env |-> e, outcome |-> outcome,
     code |-> code, minted |-> minted, spawned |-> spawned,
     streamId |-> stream_id]

NoEnvelope ==
    [requestId |-> None, direction |-> Missing, actor |-> Missing,
     action |-> Missing, modifier |-> Missing, data |-> NoData]

NoCall == Call(None, None, NoEnvelope, None, None, FALSE, FALSE, NoneId)

\* str(uuid.uuid4())
uuid4(n) == n + 1

IsTask(t) == t \in 1..Len(tasks)

SetTask(t, r) == tasks' = [tasks EXCEPT ![t] = r]

\* return AckFail(...) before uuid4() is called
Reject(handler, sid, e, code) ==
    /\ last' = Call(handler, sid, e, "fail", code, FALSE, FALSE, NoneId)
    /\ UNCHANGED <<nextUuid, tasks>>

\* stream_id = str(uuid.uuid4()); asyncio.create_task(coro); return AckOk(...)
Accept(handler, sid, e, coro) ==
    /\ nextUuid' = uuid4(nextUuid)
    /\ tasks' = Append(tasks, Send(create_task(coro),
                                   AckOk(sid, e.requestId, coro.ackStreamId)))
    /\ last' = Call(handler, sid, e, "ok", None, TRUE, TRUE, coro.ackStreamId)

\* an exception leaves the handler after uuid4() was called: no ack is returned
Raise(handler, sid, e) ==
    /\ nextUuid' = uuid4(nextUuid)
    /\ last' = Call(handler, sid, e, "raise", None, TRUE, FALSE, uuid4(nextUuid))
    /\ UNCHANGED tasks

-----------------------------------------------------------------------------
(* Start handlers *)

\* chat.py: @sio.on("c2s.assistant.stream.start")
handle_chat_stream_start(sid, e) ==
    /\ budget > 0
    /\ budget' = budget - 1
    /\ UNCHANGED <<sessions, wire, storage, active_connections, actorSet, folders, analyses, tempDirs, nextTemp>>
    /\ IF ~model_validate(e, "Envelope", actorSet)
       THEN Reject("chat", sid, e, "invalid_envelope")
       ELSE IF e.requestId = None
       THEN Reject("chat", sid, e, "invalid_envelope")
       ELSE IF e.data.shape = "list"
       THEN Accept("chat", sid, e,
                   Coroutine("openai", sid, e.requestId, uuid4(nextUuid),
                             "assistant", NoUrl, 0))
       \* validated_data is unbound when data is a dict: UnboundLocalError
       ELSE Raise("chat", sid, e)

\* base.py: BaseActor.handle_stream_start, for an actor named actor_name
BaseActor_handle_stream_start(sid, e, actor_name) ==
    /\ budget > 0
    /\ budget' = budget - 1
    /\ UNCHANGED <<sessions, wire, storage, active_connections, actorSet, folders, analyses, tempDirs, nextTemp>>
    /\ IF ~model_validate(e, "history", actorSet)
       THEN Reject("base", sid, e, "invalid_envelope")
       ELSE IF e.requestId = None
       THEN Reject("base", sid, e, "invalid_envelope")
       ELSE Accept("base", sid, e,
                   Coroutine("openai", sid, e.requestId, uuid4(nextUuid),
                             actor_name, NoUrl, 0))

\* writer.py: @sio.on("c2s.writer.stream.start")
request_writer_stream(sid, e) ==
    /\ budget > 0
    /\ budget' = budget - 1
    /\ UNCHANGED <<sessions, wire, storage, active_connections, actorSet, folders, analyses, tempDirs, nextTemp>>
    /\ IF ~model_validate(e, "history", actorSet)
       THEN Reject("writer", sid, e, "invalid_envelope")
       ELSE IF e.requestId = None
       THEN Reject("writer", sid, e, "invalid_envelope")
       ELSE Accept("writer", sid, e,
                   Coroutine("openai", sid, e.requestId, uuid4(nextUuid),
                             "writer", NoUrl, 0))

\* claude_sdk_actor.py: ClaudeSDKActor.handle_stream_start (repository teardown)
ClaudeSDKActor_handle_stream_start(sid, e) ==
    /\ budget > 0
    /\ budget' = budget - 1
    /\ UNCHANGED <<sessions, wire, storage, active_connections, actorSet, folders, analyses, tempDirs, nextTemp>>
    /\ IF ~model_validate(e, "ClaudeSDKRequest", actorSet)
       THEN Reject("teardown", sid, e, "invalid_envelope")
       ELSE IF e.requestId = None
       THEN Reject("teardown", sid, e, "invalid_envelope")
       ELSE IF e.data.repoUrl.form \notin {"absent", "empty"}
       THEN Accept("teardown", sid, e,
                   Coroutine("teardown", sid, e.requestId, uuid4(nextUuid),
                             "claude", e.data.repoUrl, 0))
       \* raise ValueError("Repo URL is required")
       ELSE Raise("teardown", sid, e)

\* actors/claude_sdk.py: ClaudeSDKActor.handle_stream_start (Claude query);
\* its codec is sockets/types/envelope.py
request_claude_stream(sid, e) ==
    /\ budget > 0
    /\ budget' = budget - 1
    /\ UNCHANGED <<sessions, wire, storage, active_connections, actorSet, folders, analyses>>
    /\ IF ~model_validate(e, "ClaudeSDKRequest", ActorV2)
       THEN Reject("query", sid, e, "invalid_envelope")
            /\ UNCHANGED <<tempDirs, nextTemp>>
       ELSE IF e.requestId = None
       THEN Reject("query", sid, e, "invalid_envelope")
            /\ UNCHANGED <<tempDirs, nextTemp>>
       ELSE IF e.data.query = "empty"
       \* raise ValueError("Query is required")
       THEN Raise("query", sid, e) /\ UNCHANGED <<tempDirs, nextTemp>>
       \* cwd = Path(tempfile.mkdtemp(dir="tmp"))
       ELSE /\ nextTemp' = nextTemp + 1
            /\ tempDirs' = tempDirs \cup {nextTemp + 1}
            /\ Accept("query", sid, e,
                      Coroutine("query", sid, e.requestId, uuid4(nextUuid),
                                "claude", NoUrl, nextTemp + 1))

-----------------------------------------------------------------------------
(* openai_streamer.stream_chunks (chat.stream_chunks has the same body with *)
(* the actor fixed to "assistant")                                         *)

\* stream = await async_openai_client.chat.completions.create(...)
stream_chunks_create(t) ==
    /\ IsTask(t) /\ tasks[t].kind = "openai" /\ tasks[t].pc = "start"
    /\ \E ok \in BOOLEAN :
         SetTask(t, [tasks[t] EXCEPT !.pc = IF ok THEN "iter" ELSE "raised",
                                     !.seq = 0])
    /\ last' = NoCall
    /\ UNCHANGED <<sessions, wire, storage, active_connections, actorSet, nextUuid, budget,
                   folders, analyses, tempDirs, nextTemp>>

\* A counter that the tasks share: one more than the largest seq any task
\* has reached
stream_chunks_seq_shared(seq) ==
    LET all == { tasks[u].seq : u \in DOMAIN tasks } \cup {seq}
    IN (CHOOSE m \in all : \A x \in all : x <= m) + 1

\* seq += 1, once per backend chunk
stream_chunks_seq(seq) == seq + 1

\* One iteration of `async for chunk in stream`.  The backend yields at most
\* one chunk with a finish_reason, and nothing after it.
stream_chunks_chunk(t) ==
    /\ IsTask(t) /\ tasks[t].kind = "openai" /\ tasks[t].pc = "iter"
    /\ ~tasks[t].fin
    /\ LET T == tasks[t]
           seq == stream_chunks_seq(T.seq)
           U == [T EXCEPT !.seq = seq, !.got = T.got + 1]
       IN \/ /\ T.got < MaxChunks      \* delta.content is not None
             /\ SetTask(t, Send(U, Envelope(T.sid, T.requestId, T.streamId,
                                  seq, T.actor, T.actor, "chunk", None,
                                  T.got + 1)))
          \/ /\ T.got < MaxChunks      \* neither content nor finish_reason
             /\ SetTask(t, U)
          \/ \E fr \in FinishReasons :  \* finish_reason is not None
                SetTask(t, Send([U EXCEPT !.fin = TRUE],
                                Envelope(T.sid, T.requestId, T.streamId,
                                  seq, T.actor, T.actor, "end", fr, NoDelta)))
    /\ last' = NoCall
    /\ UNCHANGED <<sessions, wire, storage, active_connections, actorSet, nextUuid, budget,
                   folders, analyses, tempDirs, nextTemp>>

\* The stream is exhausted: the coroutine returns
stream_chunks_return(t) ==
    /\ IsTask(t) /\ tasks[t].kind = "openai" /\ tasks[t].pc = "iter"
    /\ SetTask(t, [tasks[t] EXCEPT !.pc = "done"])
    /\ last' = NoCall
    /\ UNCHANGED <<sessions, wire, storage, active_connections, actorSet, nextUuid, budget,
                   folders, analyses, tempDirs, nextTemp>>

\* The backend raises while the stream is iterated: the task dies
stream_chunks_raise(t) ==
    /\ IsTask(t) /\ tasks[t].kind = "openai" /\ tasks[t].pc = "iter"
    /\ ~tasks[t].fin
    /\ SetTask(t, [tasks[t] EXCEPT !.pc = "raised"])
    /\ last' = NoCall
    /\ UNCHANGED <<sessions, wire, storage, active_connections, actorSet, nextUuid, budget,
                   folders, analyses, tempDirs, nextTemp>>

-----------------------------------------------------------------------------
(* claude_sdk_actor.py: ClaudeSDKActor.handle_repo_teardown and the         *)
(* functions it awaits; actors/claude_sdk.py: the Claude query task         *)

\* The Actor literal that Envelope(actor="claude", ...) is validated against
CodecOf(T) == IF T.kind = "query" THEN ActorV2 ELSE actorSet

\* cleanup_temp_dir: shutil.rmtree(temp_dir); a failure is logged and dropped
cleanup_temp_dir(dirs, d, removed) == IF removed THEN dirs \ {d} ELSE dirs

\* `finally: if repo_directory: cleanup_temp_dir(repo_directory)`
Finally(T, dirs) ==
    \E removed \in BOOLEAN :
        tempDirs' = IF T.repoDir # 0
                    THEN cleanup_temp_dir(dirs, T.repoDir, removed)
                    ELSE dirs

\* The end envelope built in `except Exception as e` of handle_repo_teardown
ErrorEnd(T) ==
    [Envelope(T.sid, T.requestId, T.ackStreamId, 1, "claude", "claude", "end",
              "error", NoDelta) EXCEPT !.error = T.error]

\* The pipeline step named step has been entered
Did(T, step) == [T EXCEPT !.steps = @ \cup {step}]

\* The exception e, as str(e), on its way to the except clause
Failed(T, e) == [T EXCEPT !.error = e]

\* An exception reaches `except Exception as e` of handle_repo_teardown:
\* the end envelope is built and emitted; if the envelope itself does not
\* validate, the ValidationError leaves the task through `finally`
Except(t, T, dirs) ==
    IF "claude" \in CodecOf(T)
    THEN /\ SetTask(t, Send([T EXCEPT !.pc = "finally"], ErrorEnd(T)))
         /\ tempDirs' = dirs
    ELSE /\ SetTask(t, [T EXCEPT !.pc = "raised"])
         /\ Finally(T, dirs)

\* close_claude_stream: end envelope without a seq, under the acked stream id
CloseEnd(T) ==
    Envelope(T.sid, T.requestId, T.ackStreamId, NoneSeq, "claude", "claude",
             "end", "stop", NoDelta)

\* What Repo.clone_from can do inside clone_repo
CloneOutcomes == {"cloned", "GitCommandError", "other_error"}

\* result = self.repo_processor.process_repo_url(repo_url), then, without an
\* await in between: close_claude_stream on a hit, `async with
\* ClaudeSDKClient(...)` on a miss, the except clause on an exception
handle_repo_teardown_process(t) ==
    /\ IsTask(t) /\ tasks[t].kind = "teardown" /\ tasks[t].pc = "start"
    /\ LET info == extract_repo_info(tasks[t].url)
       IN IF ~info.ok
          THEN /\ Except(t, Failed(tasks[t], "invalid_url"), tempDirs)
               /\ UNCHANGED nextTemp
          ELSE \E metadata \in MetadataAnswers(info.owner, info.repo) :
            LET M == [Did(tasks[t], "metadata") EXCEPT !.metadata = metadata]
                P == Did(M, "policy")
                L == Did(P, "lookup")
            IN
            IF ~metadata.accessible
            THEN Except(t, Failed(M, "not_accessible"), tempDirs)
                 /\ UNCHANGED nextTemp
            ELSE IF ~should_clone_repo(metadata)
            THEN Except(t, Failed(P, should_clone_reason(metadata)), tempDirs)
                 /\ UNCHANGED nextTemp
            ELSE IF check_if_repo_folder_exists(metadata, folders)
            THEN LET cached == find_cached_teardown(
                                 metadata, compute_repo_hash(metadata), analyses)
                     S == [L EXCEPT !.lookup = "stale"]
                     H == [Did(L, "replay") EXCEPT !.lookup = "hit",
                                                   !.key = cached]
                 IN /\ UNCHANGED nextTemp
                    /\ IF cached = NoPath
                       \* result.temp_dir is None: AttributeError
                       THEN Except(t, Failed(S, "attribute_error"), tempDirs)
                       ELSE IF "claude" \in CodecOf(H)
                       THEN /\ SetTask(t, Send([H EXCEPT !.pc = "cached_start"],
                                               CloseEnd(H)))
                            /\ UNCHANGED tempDirs
                       ELSE Except(t, Failed(H, "validation_error"), tempDirs)
            ELSE \E outcome \in CloneOutcomes :
                 LET dir == nextTemp + 1
                     C == [Did(L, "clone") EXCEPT !.lookup = "miss",
                                                  !.made = @ \cup {dir}]
                 IN
                 /\ nextTemp' = dir
                 /\ CASE outcome = "cloned" ->
                           /\ SetTask(t, [C EXCEPT !.pc = "sdk_connect",
                                            !.repoDir = dir,
                                            !.key = get_teardown_folder_path(metadata)])
                           /\ tempDirs' = tempDirs \cup {dir}
                      \* shutil.rmtree(temp_dir, ignore_errors=True); raise
                      [] outcome = "GitCommandError" ->
                           Except(t, Failed(C, "clone_failed"), tempDirs)
                      \* not a GitCommandError: the directory is left behind
                      [] outcome = "other_error" ->
                           Except(t, Failed(C, "clone_error"),
                                  tempDirs \cup {dir})
    /\ last' = NoCall
    /\ UNCHANGED <<sessions, wire, storage, active_connections, actorSet, nextUuid, budget, folders, analyses>>

\* stream_cached_analysis: stream_id = str(uuid.uuid4()), then the start
\* envelope as actor "writer"
stream_cached_analysis_start(t) ==
    /\ IsTask(t) /\ tasks[t].kind = "teardown" /\ tasks[t].pc = "cached_start"
    /\ LET T == tasks[t]
           stream_id == uuid4(nextUuid)
       IN /\ nextUuid' = stream_id
          /\ SetTask(t, Send([T EXCEPT !.pc = "cached_read",
                                       !.streamId = stream_id],
                             Envelope(T.sid, T.requestId, stream_id, NoneSeq,
                                      "writer", "writer", "start", None,
                                      NoDelta)))
    /\ last' = NoCall
    /\ UNCHANGED <<sessions, wire, storage, active_connections, actorSet, budget, folders, analyses, tempDirs, nextTemp>>

\* A replay that drops the cache entry it could not read
stream_cached_analysis_read_evicting(t) ==
    /\ IsTask(t) /\ tasks[t].kind = "teardown" /\ tasks[t].pc = "cached_read"
    /\ LET T == tasks[t]
       IN \/ /\ T.key \in DOMAIN analyses
             /\ SetTask(t, [T EXCEPT !.pc = "cached_chunks", !.seq = 0,
                                     !.content = read_text(analyses[T.key])])
             /\ UNCHANGED <<tempDirs, analyses>>
          \/ /\ Except(t, Failed(T, "read_error"), tempDirs)
             /\ analyses' = [k \in DOMAIN analyses \ {T.key} |-> analyses[k]]
    /\ last' = NoCall
    /\ UNCHANGED <<sessions, wire, storage, active_connections, actorSet, nextUuid, budget, folders, nextTemp>>

\* seq = 0; with open(analysis_file_path) as f: content = f.read()
stream_cached_analysis_read(t) ==
    /\ IsTask(t) /\ tasks[t].kind = "teardown" /\ tasks[t].pc = "cached_read"
    /\ LET T == tasks[t]
       IN \/ /\ T.key \in DOMAIN analyses
             /\ SetTask(t, [T EXCEPT !.pc = "cached_chunks", !.seq = 0,
                                     !.content = read_text(analyses[T.key])])
             /\ UNCHANGED tempDirs
          \* the file cannot be opened or read
          \/ Except(t, Failed(T, "read_error"), tempDirs)
    /\ last' = NoCall
    /\ UNCHANGED <<sessions, wire, storage, active_connections, actorSet, nextUuid, budget, folders, analyses, nextTemp>>

\* for chunk in content: emit chunk with seq; seq += 1
stream_cached_analysis_chunk(t) ==
    /\ IsTask(t) /\ tasks[t].kind = "teardown" /\ tasks[t].pc = "cached_chunks"
    /\ tasks[t].content # <<>>
    /\ LET T == tasks[t]
       IN SetTask(t, Send([T EXCEPT !.seq = T.seq + 1,
                                    !.content = Tail(T.content)],
                          Envelope(T.sid, T.requestId, T.streamId, T.seq,
                                   "writer", "writer", "chunk", None,
                                   Head(T.content))))
    /\ last' = NoCall
    /\ UNCHANGED <<sessions, wire, storage, active_connections, actorSet, nextUuid, budget,
                   folders, analyses, tempDirs, nextTemp>>

\* the end envelope of stream_cached_analysis, seq=1
stream_cached_analysis_end(t) ==
    /\ IsTask(t) /\ tasks[t].kind = "teardown" /\ tasks[t].pc = "cached_chunks"
    /\ tasks[t].content = <<>>
    /\ LET T == tasks[t]
       IN SetTask(t, Send([T EXCEPT !.pc = "finally"],
                          Envelope(T.sid, T.requestId, T.streamId, 1,
                                   "writer", "writer", "end", "stop", NoDelta)))
    /\ last' = NoCall
    /\ UNCHANGED <<sessions, wire, storage, active_connections, actorSet, nextUuid, budget,
                   folders, analyses, tempDirs, nextTemp>>

IsSdkTask(t) == IsTask(t) /\ tasks[t].kind \in {"teardown", "query"}

\* async with ClaudeSDKClient(...) as client: await client.query(...)
sdk_connect(t) ==
    /\ IsSdkTask(t)
    /\ tasks[t].pc = IF tasks[t].kind = "query" THEN "start" ELSE "sdk_connect"
    /\ LET T == Did(tasks[t], "generate")
       IN \/ SetTask(t, [T EXCEPT !.pc = "sdk_recv"]) /\ UNCHANGED tempDirs
          \/ IF T.kind = "teardown"
             THEN Except(t, Failed(T, "generation_error"), tempDirs)
             ELSE SetTask(t, [T EXCEPT !.pc = "raised"]) /\ UNCHANGED tempDirs
    /\ last' = NoCall
    /\ UNCHANGED <<sessions, wire, storage, active_connections, actorSet, nextUuid, budget, folders, analyses, nextTemp>>

BlockKinds == {"text", "tool", "other"}

RECURSIVE SeqsUpTo(_, _)
SeqsUpTo(S, n) ==
    IF n = 0 THEN {<<>>}
    ELSE LET shorter == SeqsUpTo(S, n - 1)
         IN shorter \cup { Append(s, x) : s \in shorter, x \in S }

\* The messages receive_response() can yield: with or without a `content`
\* attribute, and the ResultMessage that ends the run
SdkMessages ==
    [hasContent : {TRUE}, blocks : SeqsUpTo(BlockKinds, MaxBlocks),
     isResult : BOOLEAN]
    \cup [hasContent : {FALSE}, blocks : {<<>>}, isResult : BOOLEAN]

\* `async for chunk in stream`: the next message arrives and chunk_processor
\* is called with seq = 0
sdk_message(t) ==
    /\ IsSdkTask(t) /\ tasks[t].pc = "sdk_recv"
    /\ ~tasks[t].fin /\ tasks[t].got < MaxChunks
    /\ \E m \in SdkMessages :
         LET T == [tasks[t] EXCEPT !.got = @ + 1, !.seq = 0]
         IN IF ~m.hasContent
            THEN SetTask(t, [T EXCEPT !.fin = m.isResult])
            ELSE SetTask(t, [T EXCEPT !.pc = "chunk_processor",
                                      !.blocks = m.blocks,
                                      !.isResult = m.isResult])
    /\ last' = NoCall
    /\ UNCHANGED <<sessions, wire, storage, active_connections, actorSet, nextUuid, budget,
                   folders, analyses, tempDirs, nextTemp>>

\* the state after chunk_processor returned or raised into the loop's
\* `except Exception`
AfterMessage(T) ==
    [T EXCEPT !.pc = "sdk_recv", !.blocks = <<>>, !.fin = T.isResult,
              !.isResult = FALSE]

\* chunk_processor: `for block in chunk.content: seq += 1 ...`
chunk_processor_block(t) ==
    /\ IsSdkTask(t) /\ tasks[t].pc = "chunk_processor"
    /\ tasks[t].blocks # <<>>
    /\ LET T == tasks[t]
           seq == T.seq + 1
           U == [T EXCEPT !.seq = seq, !.blocks = Tail(T.blocks)]
       IN IF Head(T.blocks) \in {"text", "tool"}
          THEN IF "claude" \in CodecOf(T)
               THEN SetTask(t, Send(U, Envelope(T.sid, T.requestId, T.streamId,
                                       seq, "claude", "claude", "chunk", None,
                                       T.got)))
               \* ValidationError, logged by the caller's loop
               ELSE SetTask(t, AfterMessage(U))
          ELSE SetTask(t, U)
    /\ last' = NoCall
    /\ UNCHANGED <<sessions, wire, storage, active_connections, actorSet, nextUuid, budget,
                   folders, analyses, tempDirs, nextTemp>>

\* chunk_processor after its loop: the end envelope for a ResultMessage
chunk_processor_result(t) ==
    /\ IsSdkTask(t) /\ tasks[t].pc = "chunk_processor"
    /\ tasks[t].blocks = <<>>
    /\ LET T == tasks[t]
       IN IF T.isResult /\ "claude" \in CodecOf(T)
          THEN SetTask(t, Send(AfterMessage(T),
                               Envelope(T.sid, T.requestId, T.streamId, T.seq,
                                        "claude", "claude", "end", "stop",
                                        NoDelta)))
          ELSE SetTask(t, AfterMessage(T))
    /\ last' = NoCall
    /\ UNCHANGED <<sessions, wire, storage, active_connections, actorSet, nextUuid, budget,
                   folders, analyses, tempDirs, nextTemp>>

\* receive_response() raises
sdk_raise(t) ==
    /\ IsSdkTask(t) /\ tasks[t].pc = "sdk_recv" /\ ~tasks[t].fin
    /\ LET T == tasks[t]
       IN IF T.kind = "teardown"
          THEN Except(t, Failed(T, "generation_error"), tempDirs)
          ELSE SetTask(t, [T EXCEPT !.pc = "raised"]) /\ UNCHANGED tempDirs
    /\ last' = NoCall
    /\ UNCHANGED <<sessions, wire, storage, active_connections, actorSet, nextUuid, budget, folders, analyses, nextTemp>>

\* save_teardown: copy <temp_dir>/repo_analysis.md to
\* data/<full_name>/<sha>/analysis.md
save_teardown_ok(T, produced) == produced /\ T.key \in folders

\* receive_response() is exhausted and the client is closed; the query task
\* returns; the teardown goes on to save_teardown and `finally`
sdk_return(t) ==
    /\ IsSdkTask(t) /\ tasks[t].pc = "sdk_recv"
    /\ LET T == tasks[t]
       IN IF T.kind = "query"
          THEN /\ SetTask(t, [T EXCEPT !.pc = "done"])
               /\ UNCHANGED <<analyses, tempDirs>>
          ELSE \E produced \in BOOLEAN, artifact \in Artifacts :
                 IF save_teardown_ok(T, produced)
                 THEN /\ analyses' = [k \in DOMAIN analyses \cup {T.key} |->
                                        IF k = T.key THEN artifact
                                        ELSE analyses[k]]
                      /\ SetTask(t, [Did(T, "persist") EXCEPT !.pc = "done"])
                      /\ Finally(T, tempDirs)
                 ELSE /\ Except(t, Failed(Did(T, "persist"),
                                          IF produced THEN "persist_failed"
                                          ELSE "artifact_missing"),
                                tempDirs)
                      /\ UNCHANGED analyses
    /\ last' = NoCall
    /\ UNCHANGED <<sessions, wire, storage, active_connections, actorSet, nextUuid, budget, folders, nextTemp>>

\* Time passes while the generation step of a teardown runs: the step has
\* now lasted longer than self.operation_timeout, which nothing reads
operation_timeout_expires(t) ==
    /\ IsTask(t) /\ tasks[t].kind = "teardown"
    /\ tasks[t].pc \in {"sdk_recv", "chunk_processor"}
    /\ tasks[t].elapsed <= OPERATION_TIMEOUT
    /\ SetTask(t, [tasks[t] EXCEPT !.elapsed = OPERATION_TIMEOUT + 1])
    /\ last' = NoCall
    /\ UNCHANGED <<sessions, wire, storage, active_connections, actorSet, nextUuid, budget,
                   folders, analyses, tempDirs, nextTemp>>

\* A `finally` clause that lets the failure of rmtree out: the except
\* clause of the caller reports it with one more end envelope
handle_repo_teardown_finally_raising(t) ==
    /\ IsTask(t) /\ tasks[t].kind = "teardown" /\ tasks[t].pc = "finally"
    /\ \E removed \in BOOLEAN :
         /\ tempDirs' = IF tasks[t].repoDir # 0
                         THEN cleanup_temp_dir(tempDirs, tasks[t].repoDir, removed)
                         ELSE tempDirs
         /\ IF removed \/ tasks[t].repoDir = 0
            THEN SetTask(t, [tasks[t] EXCEPT !.pc = "done"])
            ELSE SetTask(t, Send([tasks[t] EXCEPT !.pc = "raised"],
                                 ErrorEnd(Failed(tasks[t], "cleanup_failed"))))
    /\ last' = NoCall
    /\ UNCHANGED <<sessions, wire, storage, active_connections, actorSet, nextUuid, budget, folders, analyses, nextTemp>>

\* the `finally` clause after the awaited emit of the last envelope
handle_repo_teardown_finally(t) ==
    /\ IsTask(t) /\ tasks[t].kind = "teardown" /\ tasks[t].pc = "finally"
    /\ SetTask(t, [tasks[t] EXCEPT !.pc = "done"])
    /\ Finally(tasks[t], tempDirs)
    /\ last' = NoCall
    /\ UNCHANGED <<sessions, wire, storage, active_connections, actorSet, nextUuid, budget, folders, analyses, nextTemp>>

-----------------------------------------------------------------------------
(* Specifications *)

-----------------------------------------------------------------------------
(* teardown/local_storage_client.py, teardown/google_storage_adaptor.py:    *)
(* the storage adaptors.  A store is the set of repo folders that exist     *)
(* (local: directories; remote: the empty placeholder blobs) and the set of *)
(* analysis.md entries as <<key, content>> pairs                            *)

StorageVariants == {"LocalStorageClient", "GoogleStorageAdaptor"}

\* No adaptor was constructed.  twin is the store of an adaptor of the other
\* variant that is given the same calls
NoStorage ==
    [variant |-> "none", folders |-> {}, files |-> {},
     twin |-> [folders |-> {}, files |-> {}]]

\* LocalStorageClient.create_repo_folder: path.mkdir(exist_ok=True, parents=True)
LocalStorageClient_create_repo_folder(st, key) ==
    [st EXCEPT !.folders = @ \cup {key}]

\* GoogleStorageAdaptor.create_repo_folder: create_folder uploads an empty
\* blob named <data_dir>/<full_name>/<repo_hash>, replacing the one there
GoogleStorageAdaptor_create_repo_folder(st, key) ==
    [st EXCEPT !.folders = (@ \ {key}) \cup {key}]

create_repo_folder(st, key) ==
    IF st.variant = "LocalStorageClient"
    THEN LocalStorageClient_create_repo_folder(st, key)
    ELSE GoogleStorageAdaptor_create_repo_folder(st, key)

\* A copy that adds the new file next to what is already stored at the key
copy2_keeping(files, key, artifact) == files \cup {<<key, artifact>>}

\* shutil.copy2(source, target) / blob.upload_from_filename: the target is
\* replaced by the source's content
copy2(files, key, artifact) ==
    { f \in files : f[1] # key } \cup {<<key, artifact>>}

\* LocalStorageClient.save_teardown_analysis: copy2 raises when the target
\* folder does not exist; the exception is logged and None is returned
LocalStorageClient_save_teardown_analysis(st, key, artifact) ==
    IF key \in st.folders
    THEN [ok |-> TRUE, st |-> [st EXCEPT !.files = copy2(@, key, artifact)]]
    ELSE [ok |-> FALSE, st |-> st]

\* GoogleStorageAdaptor.save_teardown_analysis: upload_file to
\* <data_dir>/<full_name>/<sha>/analysis.md, whatever blobs exist
GoogleStorageAdaptor_save_teardown_analysis(st, key, artifact) ==
    [ok |-> TRUE, st |-> [st EXCEPT !.files = copy2(@, key, artifact)]]

save_teardown_analysis(st, key, artifact) ==
    IF st.variant = "LocalStorageClient"
    THEN LocalStorageClient_save_teardown_analysis(st, key, artifact)
    ELSE GoogleStorageAdaptor_save_teardown_analysis(st, key, artifact)

\* LocalStorageClient.find_cached_teardown: the first match of
\* <data_dir>/<full_name>/<repo_hash>/analysis.md, else None
LocalStorageClient_find_cached_teardown(st, key) ==
    IF \E f \in st.files : f[1] = key THEN key ELSE NoPath

\* GoogleStorageAdaptor.find_cached_teardown: storage_client.exists(path)
GoogleStorageAdaptor_find_cached_teardown(st, key) ==
    IF \E f \in st.files : f[1] = key THEN key ELSE NoPath

StorageAdaptor_find_cached_teardown(st, key) ==
    IF st.variant = "LocalStorageClient"
    THEN LocalStorageClient_find_cached_teardown(st, key)
    ELSE GoogleStorageAdaptor_find_cached_teardown(st, key)

\* The adaptor of the other variant, with the store the same calls gave it
TwinOf(st) ==
    [variant |-> IF st.variant = "LocalStorageClient" THEN "GoogleStorageAdaptor"
                 ELSE "LocalStorageClient",
     folders |-> st.twin.folders, files |-> st.twin.files,
     twin |-> [folders |-> st.folders, files |-> st.files]]

\* st, its twin being the store of the adaptor tw
WithTwin(st, tw) ==
    [st EXCEPT !.twin = [folders |-> tw.folders, files |-> tw.files]]

RepoR == <<"o", <<"r">>>>
RepoRR == <<"o", <<"r", "r">>>>

\* The data directory outlives the process: what it can hold at start-up
DataDirs ==
    { [folders |-> {}, analyses |-> <<>>],
      [folders |-> {<<RepoR, "x">>}, analyses |-> <<>>] }
    \cup
    { [folders |-> {<<RepoR, "x">>},
       analyses |-> [k \in {<<RepoR, "x">>} |-> a]] : a \in Artifacts }
    \cup
    { [folders |-> {<<RepoRR, "x">>},
       analyses |-> [k \in {<<RepoRR, "x">>} |-> <<"a">>]] }

InitWith(starts) ==
    /\ actorSet \in {Actor, ActorV2}
    /\ nextUuid = 0
    /\ budget = starts
    /\ tasks = <<>>
    /\ last = NoCall
    /\ \E d \in DataDirs : folders = d.folders /\ analyses = d.analyses
    /\ tempDirs = {}
    /\ nextTemp = 0
    /\ active_connections = Sids
    /\ sessions = Sids
    /\ storage = NoStorage
    /\ wire = NoWire

Init == InitWith(MaxStarts)

Start(sid, e) ==
    \/ handle_chat_stream_start(sid, e)
    \/ \E a \in Actor : BaseActor_handle_stream_start(sid, e, a)
    \/ request_writer_stream(sid, e)
    \/ ClaudeSDKActor_handle_stream_start(sid, e)
    \/ request_claude_stream(sid, e)

Generation(t) ==
    \/ stream_chunks_create(t)
    \/ stream_chunks_chunk(t)
    \/ stream_chunks_return(t)
    \/ stream_chunks_raise(t)
    \/ handle_repo_teardown_process(t)
    \/ stream_cached_analysis_start(t)
    \/ stream_cached_analysis_read(t)
    \/ stream_cached_analysis_chunk(t)
    \/ stream_cached_analysis_end(t)
    \/ sdk_connect(t)
    \/ sdk_message(t)
    \/ chunk_processor_block(t)
    \/ chunk_processor_result(t)
    \/ sdk_raise(t)
    \/ sdk_return(t)
    \/ operation_timeout_expires(t)
    \/ handle_repo_teardown_finally(t)

Next ==
    \/ \E sid \in Sids, e \in ClientEnvelopes : Start(sid, e)
    \/ \E t \in 1..MaxStarts : Generation(t)

Spec == Init /\ [][Next]_vars

\* The start handlers alone, over several well-formed requests: the tasks
\* they create are left waiting
StartInit == InitWith(MaxCalls)

StartNext == \E sid \in Sids, e \in StreamEnvelopes : Start(sid, e)

StartSpec == StartInit /\ [][StartNext]_vars

\* Teardown requests one after the other: a request is sent once every
\* earlier run has ended
TeardownEnvelopes ==
    { e \in StreamEnvelopes :
        /\ e.requestId = "r1"
        /\ extract_repo_info(e.data.repoUrl).ok }

\* The repository is public, small and enabled whenever it is asked about
RepeatAnswers ==
    { m \in MetadataAnswers("o", <<"r">>) :
        m.accessible /\ should_clone_repo(m) /\ ~m.archived }

RepeatInit == InitWith(MaxRuns)

RepeatStart ==
    /\ \A t \in DOMAIN tasks : tasks[t].pc \in {"done", "raised"}
    /\ \E e \in TeardownEnvelopes :
          ClaudeSDKActor_handle_stream_start("c1", e)

RepeatGeneration(t) ==
    \/ handle_repo_teardown_process(t) /\ tasks'[t].metadata \in RepeatAnswers
    \/ stream_cached_analysis_start(t)
    \/ stream_cached_analysis_read(t)
    \/ stream_cached_analysis_chunk(t)
    \/ stream_cached_analysis_end(t)
    \/ sdk_connect(t)
    \/ sdk_message(t) /\ tasks'[t].blocks = <<"text">>
    \/ chunk_processor_block(t)
    \/ chunk_processor_result(t)
    \/ sdk_raise(t)
    \/ sdk_return(t)
    \/ operation_timeout_expires(t)
    \/ handle_repo_teardown_finally(t)

RepeatNext ==
    \/ RepeatStart
    \/ \E t \in 1..MaxRuns : RepeatGeneration(t)

RepeatSpec == RepeatInit /\ [][RepeatNext]_vars

\* Two teardown requests of one client for the same repository, at the same
\* commit, nothing being cached for it: the second may start at any moment of
\* the first, and their steps interleave freely
RaceInit == InitWith(MaxRuns) /\ folders = {} /\ analyses = <<>>

RaceStart ==
    \E e \in TeardownEnvelopes :
        /\ extract_repo_info(e.data.repoUrl).repo = <<"r">>
        /\ ClaudeSDKActor_handle_stream_start("c1", e)

RaceGeneration(t) ==
    \/ handle_repo_teardown_process(t)
          /\ tasks'[t].metadata \in RepeatAnswers
          /\ tasks'[t].metadata.sha = "x"
          /\ ~tasks'[t].metadata.disabled
    \/ sdk_connect(t)
    \/ sdk_message(t) /\ tasks'[t].blocks = <<"text">>
    \/ chunk_processor_block(t)
    \/ chunk_processor_result(t)
    \/ sdk_raise(t)
    \/ sdk_return(t)
    \/ handle_repo_teardown_finally(t)

RaceNext ==
    \/ RaceStart
    \/ \E t \in 1..MaxRuns : RaceGeneration(t)

RaceSpec == RaceInit /\ [][RaceNext]_vars

\* Two streams of the OpenAI-backed streamer started by one client: the
\* second start may arrive at any moment of the first stream, and the tasks'
\* steps interleave freely
PairEnvelopes ==
    { e \in StreamEnvelopes :
        e.requestId # None /\ model_validate(e, "history", Actor) }

PairInit == InitWith(MaxRuns) /\ folders = {} /\ analyses = <<>>

PairStart ==
    \E e \in PairEnvelopes, a \in Actor : BaseActor_handle_stream_start("c1", e, a)

PairGeneration(t) ==
    \/ stream_chunks_create(t)
    \/ stream_chunks_chunk(t)
    \/ stream_chunks_return(t)
    \/ stream_chunks_raise(t)

PairNext ==
    \/ PairStart
    \/ \E t \in 1..MaxRuns : PairGeneration(t)

PairSpec == PairInit /\ [][PairNext]_vars

\* A connect handler that does not register the sid
connect_forgetful(sid) ==
    /\ sid \notin sessions
    /\ sessions' = sessions \cup {sid}
    /\ last' = NoCall
    /\ UNCHANGED <<active_connections, wire, storage, actorSet, nextUuid, budget,
                   tasks, folders, analyses, tempDirs, nextTemp>>

\* setup.py: connect, called by the server once for a session that opens:
\* active_connections[sid] = environ
connect(sid) ==
    /\ sid \notin sessions
    /\ sessions' = sessions \cup {sid}
    /\ active_connections' = active_connections \cup {sid}
    /\ last' = NoCall
    /\ UNCHANGED <<wire, storage, actorSet, nextUuid, budget, tasks,
                   folders, analyses, tempDirs, nextTemp>>

\* setup.py: disconnect, called by the server once for a session that
\* closes: del active_connections[sid], a KeyError when sid is not a key
disconnect(sid) ==
    /\ sid \in sessions
    /\ sessions' = sessions \ {sid}
    /\ IF sid \in active_connections
       THEN /\ active_connections' = active_connections \ {sid}
            /\ last' = NoCall
       ELSE /\ UNCHANGED active_connections
            /\ last' = Call(None, sid, NoEnvelope, "raise", "KeyError", FALSE,
                            FALSE, NoneId)
    /\ UNCHANGED <<wire, storage, actorSet, nextUuid, budget, tasks,
                   folders, analyses, tempDirs, nextTemp>>

\* Clients that connect, send one start and may disconnect at any moment;
\* only a connected client's events reach a handler
ConnInit ==
    /\ actorSet \in {Actor, ActorV2}
    /\ nextUuid = 0
    /\ budget = MaxStarts
    /\ tasks = <<>>
    /\ last = NoCall
    /\ \E d \in DataDirs : folders = d.folders /\ analyses = d.analyses
    /\ tempDirs = {}
    /\ nextTemp = 0
    /\ active_connections = {}
    /\ sessions = {}
    /\ storage = NoStorage
    /\ wire = NoWire

ConnEnvelopes == { e \in StreamEnvelopes : e.requestId = "r1" }

ConnStart == \E sid \in sessions, e \in ConnEnvelopes : Start(sid, e)

ConnGeneration(t) ==
    \/ RepeatGeneration(t)
    \/ stream_chunks_create(t)
    \/ stream_chunks_chunk(t)
    \/ stream_chunks_return(t)
    \/ stream_chunks_raise(t)

ConnNext ==
    \/ \E sid \in Sids : connect(sid) \/ disconnect(sid)
    \/ ConnStart
    \/ \E t \in 1..MaxStarts : ConnGeneration(t)

ConnSpec == ConnInit /\ [][ConnNext]_vars

\* A storage adaptor on its own: an empty store, then any sequence of
\* create_repo_folder and save_teardown_analysis calls
StorageKeys == { <<r, sha>> : r \in {RepoR, RepoRR}, sha \in Shas }

StorageInit ==
    /\ InitWith(0)
    /\ actorSet = Actor
    /\ folders = {} /\ analyses = <<>>

StorageConstruct(variant) ==
    /\ storage = NoStorage
    /\ storage' = [NoStorage EXCEPT !.variant = variant]
    /\ UNCHANGED <<sessions, wire, actorSet, nextUuid, budget, tasks, last, folders, analyses,
                   tempDirs, nextTemp, active_connections>>

StorageCreate(key) ==
    /\ storage.variant \in StorageVariants
    /\ storage' = WithTwin(create_repo_folder(storage, key),
                           create_repo_folder(TwinOf(storage), key))
    /\ UNCHANGED <<sessions, wire, actorSet, nextUuid, budget, tasks, last, folders, analyses,
                   tempDirs, nextTemp, active_connections>>

StorageSave(key, artifact) ==
    /\ storage.variant \in StorageVariants
    /\ storage' = WithTwin(save_teardown_analysis(storage, key, artifact).st,
                           save_teardown_analysis(TwinOf(storage), key, artifact).st)
    /\ UNCHANGED <<sessions, wire, actorSet, nextUuid, budget, tasks, last, folders, analyses,
                   tempDirs, nextTemp, active_connections>>

StorageNext ==
    \/ \E variant \in StorageVariants : StorageConstruct(variant)
    \/ \E key \in StorageKeys : StorageCreate(key)
    \/ \E key \in StorageKeys, artifact \in Artifacts : StorageSave(key, artifact)

StorageSpec == StorageInit /\ [][StorageNext]_vars

\* The codec on its own: an Envelope instance is built, encoded with
\* model_dump_json and the text is decoded with model_validate
CodecInit ==
    /\ actorSet = Actor
    /\ nextUuid = 0
    /\ budget = 0
    /\ tasks = <<>>
    /\ last = NoCall
    /\ folders = {} /\ analyses = <<>>
    /\ tempDirs = {}
    /\ nextTemp = 0
    /\ active_connections = {}
    /\ sessions = {}
    /\ storage = NoStorage
    /\ \E e \in EnvelopeInstances : wire = [NoWire EXCEPT !.pc = "built", !.e = e]

CodecEncode ==
    /\ wire.pc = "built"
    /\ wire' = [wire EXCEPT !.pc = "encoded",
                            !.json = Envelope_model_dump_json(wire.e)]
    /\ UNCHANGED <<sessions, storage, actorSet, nextUuid, budget, tasks, last, folders,
                   analyses, tempDirs, nextTemp, active_connections>>

CodecDecode ==
    /\ wire.pc = "encoded"
    /\ wire' = [wire EXCEPT !.pc = "decoded",
                            !.decoded = Envelope_model_validate(wire.json)]
    /\ UNCHANGED <<sessions, storage, actorSet, nextUuid, budget, tasks, last, folders,
                   analyses, tempDirs, nextTemp, active_connections>>

CodecNext == CodecEncode \/ CodecDecode

CodecSpec == CodecInit /\ [][CodecNext]_vars

-----------------------------------------------------------------------------
(* file_streamer.py: stream_chunks_from_file, run on its own.  A character  *)
(* of the file is identified by its position                                *)

\* chunk_size = 1000  # Characters per chunk
CHUNK_SIZE == 1000

\* The lengths of the files the streamer is run on
FileSizes == {0, 1, CHUNK_SIZE, CHUNK_SIZE + 1, 2 * CHUNK_SIZE + 1}

FilePath == <<"analysis.md">>

\* content[0:chunk_size]
FirstChunk(content) ==
    SubSeq(content, 1, IF Len(content) < CHUNK_SIZE THEN Len(content) ELSE CHUNK_SIZE)

\* content[chunk_size:]
RestChunks(content) == SubSeq(content, Len(FirstChunk(content)) + 1, Len(content))

\* An end envelope of finish reason error carrying the message e
FileErrorEnd(T, seq, e) ==
    [Envelope(T.sid, T.requestId, T.streamId, seq, T.actor, T.actor, "end",
              "error", NoDelta) EXCEPT !.error = e]

\* The coroutine stream_chunks_from_file(sid, data, request_id, stream_id,
\* actor, model, file_path) is about to run; seq is not bound yet
FileInit ==
    /\ actorSet = Actor
    /\ nextUuid = 1
    /\ budget = 0
    /\ \E sid \in Sids, request_id \in RequestIds, actor \in Actor :
          tasks = << [Coroutine("file", sid, request_id, 1, actor, NoUrl, 0)
                        EXCEPT !.key = FilePath, !.seq = NoneSeq] >>
    /\ last = NoCall
    /\ folders = {}
    /\ \/ analyses = <<>>
       \/ \E n \in FileSizes : analyses = [p \in {FilePath} |-> [i \in 1..n |-> i]]
    /\ tempDirs = {}
    /\ nextTemp = 0
    /\ active_connections = Sids
    /\ sessions = Sids
    /\ storage = NoStorage
    /\ wire = NoWire

\* if not os.path.exists(file_path): emit the error end with seq=1 and
\* return; this emit is outside the try block
stream_chunks_from_file_start(t) ==
    /\ IsTask(t) /\ tasks[t].kind = "file" /\ tasks[t].pc = "start"
    /\ LET T == tasks[t]
       IN IF T.key \notin DOMAIN analyses
          THEN \E emitted \in BOOLEAN :
                 IF emitted
                 THEN SetTask(t, Send([T EXCEPT !.pc = "done"],
                                      FileErrorEnd(T, 1, "file_not_found")))
                 ELSE SetTask(t, [T EXCEPT !.pc = "raised"])
          ELSE SetTask(t, [T EXCEPT !.pc = "file_read"])
    /\ last' = NoCall
    /\ UNCHANGED <<sessions, wire, storage, active_connections, actorSet, nextUuid, budget,
                   folders, analyses, tempDirs, nextTemp>>

\* with open(file_path) as file: content = file.read(); the chunks are cut;
\* seq = 0.  open() or read() may raise: seq is then still unbound
stream_chunks_from_file_read(t) ==
    /\ IsTask(t) /\ tasks[t].kind = "file" /\ tasks[t].pc = "file_read"
    /\ LET T == tasks[t]
       IN \/ /\ T.key \in DOMAIN analyses
             /\ SetTask(t, [T EXCEPT !.pc = "file_chunks", !.seq = 0,
                                     !.content = analyses[T.key]])
          \/ SetTask(t, [T EXCEPT !.pc = "file_except"])
    /\ last' = NoCall
    /\ UNCHANGED <<sessions, wire, storage, active_connections, actorSet, nextUuid, budget,
                   folders, analyses, tempDirs, nextTemp>>

\* for chunk in chunks: seq += 1; emit the chunk envelope (which may raise)
stream_chunks_from_file_chunk(t) ==
    /\ IsTask(t) /\ tasks[t].kind = "file" /\ tasks[t].pc = "file_chunks"
    /\ tasks[t].content # <<>>
    /\ LET T == tasks[t]
           seq == T.seq + 1
       IN \E emitted \in BOOLEAN :
            IF emitted
            THEN SetTask(t, Send([T EXCEPT !.seq = seq,
                                           !.content = RestChunks(T.content)],
                                 Envelope(T.sid, T.requestId, T.streamId, seq,
                                          T.actor, T.actor, "chunk", None,
                                          FirstChunk(T.content))))
            ELSE SetTask(t, [T EXCEPT !.seq = seq, !.pc = "file_except"])
    /\ last' = NoCall
    /\ UNCHANGED <<sessions, wire, storage, active_connections, actorSet, nextUuid, budget,
                   folders, analyses, tempDirs, nextTemp>>

\* after the loop: seq += 1; emit the end envelope of finish reason stop
\* (which may raise)
stream_chunks_from_file_end(t) ==
    /\ IsTask(t) /\ tasks[t].kind = "file" /\ tasks[t].pc = "file_chunks"
    /\ tasks[t].content = <<>>
    /\ LET T == tasks[t]
           seq == T.seq + 1
       IN \E emitted \in BOOLEAN :
            IF emitted
            THEN SetTask(t, Send([T EXCEPT !.seq = seq, !.pc = "done"],
                                 Envelope(T.sid, T.requestId, T.streamId, seq,
                                          T.actor, T.actor, "end", "stop",
                                          NoDelta)))
            ELSE SetTask(t, [T EXCEPT !.seq = seq, !.pc = "file_except"])
    /\ last' = NoCall
    /\ UNCHANGED <<sessions, wire, storage, active_connections, actorSet, nextUuid, budget,
                   folders, analyses, tempDirs, nextTemp>>

\* except Exception as e: emit the error end with
\* seq = seq + 1 if 'seq' in locals() else 1 (this emit may raise as well)
stream_chunks_from_file_except(t) ==
    /\ IsTask(t) /\ tasks[t].kind = "file" /\ tasks[t].pc = "file_except"
    /\ LET T == tasks[t]
           seq == IF T.seq = NoneSeq THEN 1 ELSE T.seq + 1
       IN \E emitted \in BOOLEAN :
            IF emitted
            THEN SetTask(t, Send([T EXCEPT !.pc = "done"],
                                 FileErrorEnd(T, seq, "stream_error")))
            ELSE SetTask(t, [T EXCEPT !.pc = "raised"])
    /\ last' = NoCall
    /\ UNCHANGED <<sessions, wire, storage, active_connections, actorSet, nextUuid, budget,
                   folders, analyses, tempDirs, nextTemp>>

FileNext ==
    \/ stream_chunks_from_file_start(1)
    \/ stream_chunks_from_file_read(1)
    \/ stream_chunks_from_file_chunk(1)
    \/ stream_chunks_from_file_end(1)
    \/ stream_chunks_from_file_except(1)

FileSpec == FileInit /\ [][FileNext]_vars

-----------------------------------------------------------------------------
(* What the transport was handed, per stream *)

IsStreamMessage(m) == m.type = "env" /\ m.modifier \in {"chunk", "end"}

IsEnd(m) == m.type = "env" /\ m.modifier = "end"

\* The chunk and end envelopes task t emitted, in emission order
Emitted(t) == SelectSeq(tasks[t].sent, IsStreamMessage)

\* The chunk and end envelopes task t emitted under stream id id, in order
EmittedFor(t, id) ==
    SelectSeq(tasks[t].sent, LAMBDA m : IsStreamMessage(m) /\ m.streamId = id)

\* The end envelopes emitted under stream id id, by any task
EndsFor(id) ==
    { p \in { <<t, i>> : t \in DOMAIN tasks, i \in 1..(MaxChunks * MaxBlocks + 8) } :
        /\ p[2] \in DOMAIN tasks[p[1]].sent
        /\ IsEnd(tasks[p[1]].sent[p[2]])
        /\ tasks[p[1]].sent[p[2]].streamId = id }

\* The stream ids returned in ok acknowledgements
AckedIds == { tasks[t].sent[1].streamId : t \in DOMAIN tasks }

Finished(t) == tasks[t].pc \in {"done", "raised"}

-----------------------------------------------------------------------------
(* Claims *)

C2_EndWhenFinished ==
    \A t \in DOMAIN tasks :
        Finished(t) =>
            \E i \in DOMAIN tasks[t].sent :
                /\ IsEnd(tasks[t].sent[i])
                /\ tasks[t].sent[i].streamId = tasks[t].ackStreamId
                /\ tasks[t].pc = "raised" =>
                       tasks[t].sent[i].finishReason = "error"

\* C3: for every stream of the OpenAI-backed streamer, the seq values of the
\* emitted chunk and end envelopes, in emission order, are exactly 1, 2, 3,
\* ..., for any sequence of backend chunks, those that carry neither content
\* nor a finish reason included.
C3_OpenAISeqExact ==
    \A t \in DOMAIN tasks :
        tasks[t].kind = "openai" =>
            \A i \in DOMAIN Emitted(t) : Emitted(t)[i].seq = i

C5_AckBeforeStream ==
    /\ \A t \in DOMAIN tasks :
          /\ tasks[t].sent # <<>>
          /\ tasks[t].sent[1] =
                AckOk(tasks[t].sid, tasks[t].requestId, tasks[t].ackStreamId)
          /\ \A i \in 2..Len(tasks[t].sent) : tasks[t].sent[i].type = "env"
    /\ last.outcome = "ok" =>
          /\ tasks[Len(tasks)].pc = "start"
          /\ Len(tasks[Len(tasks)].sent) = 1

\* A stream whose acknowledgement was followed by a chunk and an end
C5_Witness ==
    \E t \in DOMAIN tasks :
        /\ Len(tasks[t].sent) >= 3
        /\ tasks[t].sent[2].modifier = "chunk"
        /\ IsEnd(tasks[t].sent[Len(tasks[t].sent)])

\* The payload type and the codec a start handler validates against
PayloadType(handler) ==
    CASE handler = "chat" -> "Envelope"
      [] handler \in {"base", "writer"} -> "history"
      [] handler \in {"teardown", "query"} -> "ClaudeSDKRequest"

CodecOfHandler(handler) == IF handler = "query" THEN ActorV2 ELSE actorSet

IsStartCall(call) == call.handler # None

ValidStart(call) ==
    /\ call.env.requestId # None
    /\ model_validate(call.env, PayloadType(call.handler),
                      CodecOfHandler(call.handler))

\* C6: every valid start envelope yields an ok acknowledgement, and the
\* stream ids returned in ok acknowledgements are pairwise distinct, across
\* connections, actors and request ids (repeated request ids included).
C6_ValidStartAcked ==
    /\ IsStartCall(last) /\ ValidStart(last) => last.outcome = "ok"
    /\ \A t, u \in DOMAIN tasks :
          t # u => tasks[t].sent[1].streamId # tasks[u].sent[1].streamId

C8_InvalidEnvelopeRejected ==
    [][ (IsStartCall(last') /\ ControlDefects(last'.env) > 0) =>
            /\ last'.outcome = "fail"
            /\ last'.code = "invalid_envelope"
            /\ nextUuid' = nextUuid
            /\ tasks' = tasks
            /\ tempDirs' = tempDirs ]_vars

\* A start whose only defect is the missing request id was answered with
\* the fail acknowledgement
C8_Witness ==
    /\ IsStartCall(last)
    /\ last.env.requestId = None
    /\ model_validate(last.env, PayloadType(last.handler),
                      CodecOfHandler(last.handler))
    /\ last.outcome = "fail"
    /\ last.code = "invalid_envelope"

\* The request-level policy check of the teardown and the query actor fails
PolicyFailure(call) ==
    \/ call.handler = "teardown" /\ call.env.data.repoUrl.form \in {"absent", "empty"}
    \/ call.handler = "query" /\ call.env.data.query = "empty"

\* C9: for every start envelope the start handler returns an acknowledgement
\* and never raises; a payload that fails the actor's policy check (missing
\* repository URL, empty query) is returned as a fail acknowledgement with no
\* stream id minted, no working directory created and no task scheduled.
C9_AlwaysAcknowledges ==
    IsStartCall(last) =>
        /\ last.outcome \in {"ok", "fail"}
        /\ PolicyFailure(last) =>
              /\ last.outcome = "fail"
              /\ ~last.minted
              /\ ~last.spawned

-----------------------------------------------------------------------------
(* The teardown pipeline *)

IsTeardown(t) == tasks[t].kind = "teardown"

\* The policy accepted the repository whose metadata the run resolved
Accepted(T) ==
    /\ "metadata" \in T.steps
    /\ T.metadata.accessible
    /\ should_clone_repo(T.metadata)

\* The deltas of the chunk envelopes task t emitted under stream id id
Deltas(t, id) ==
    LET chunks == SelectSeq(tasks[t].sent,
                            LAMBDA m : /\ m.type = "env"
                                       /\ m.modifier = "chunk"
                                       /\ m.streamId = id)
    IN [i \in DOMAIN chunks |-> chunks[i].delta]

Envelopes(t) == SelectSeq(tasks[t].sent, LAMBDA m : m.type = "env")

C15_HitIffExactKey ==
    \A t \in DOMAIN tasks :
        ( /\ IsTeardown(t)
          /\ tasks[t].pc # "start"
          /\ Accepted(tasks[t]) )
        => LET stored == get_teardown_folder_path(tasks[t].metadata)
                            \in DOMAIN analyses
           IN /\ "lookup" \in tasks[t].steps
              /\ tasks[t].lookup = "hit" <=> stored
              /\ tasks[t].lookup = "hit" =>
                    tasks[t].key = get_teardown_folder_path(tasks[t].metadata)
              /\ ~stored => /\ tasks[t].lookup = "miss"
                            /\ "clone" \in tasks[t].steps

\* C16: once a teardown run has ended, on whatever exit path, no working
\* directory that the run created still exists.
C16_NoWorkingDirLeft ==
    \A t \in DOMAIN tasks :
        (IsTeardown(t) /\ Finished(t)) => tasks[t].made \cap tempDirs = {}

\* The run of task t emitted, on its acknowledged stream, an end envelope
\* of finish reason error that carries the failure e
EndsWithError(t, e) ==
    \E i \in DOMAIN tasks[t].sent :
        /\ IsEnd(tasks[t].sent[i])
        /\ tasks[t].sent[i].streamId = tasks[t].ackStreamId
        /\ tasks[t].sent[i].finishReason = "error"
        /\ tasks[t].sent[i].error = e

\* C17: a teardown run whose repository metadata reports a size above the
\* ceiling (MAX_REPO_SIZE_MB) performs no cache lookup and no acquisition,
\* and once it is over its stream has an end envelope of finish reason
\* error carrying the too-large message.
C17_TooLargeRejected ==
    \A t \in DOMAIN tasks :
        ( /\ IsTeardown(t)
          /\ "metadata" \in tasks[t].steps
          /\ tasks[t].metadata.accessible
          /\ tasks[t].metadata.size > MAX_REPO_SIZE_MB * 1024 )
        => /\ tasks[t].steps \cap {"lookup", "clone", "generate"} = {}
           /\ tasks[t].made = {}
           /\ Finished(t) => EndsWithError(t, "too_large")

\* C18: a teardown run whose reference does not parse, or whose metadata
\* fetch fails, acquires nothing (no clone, no working directory, and no
\* metadata call when the reference does not parse), and once it is over
\* its stream has an end envelope of finish reason error that embeds the
\* failure.
C18_EarlyFailureAborts ==
    \A t \in DOMAIN tasks :
        (IsTeardown(t) /\ tasks[t].pc # "start") =>
            /\ ~extract_repo_info(tasks[t].url).ok =>
                  /\ tasks[t].steps = {}
                  /\ tasks[t].made = {}
                  /\ Finished(t) => EndsWithError(t, "invalid_url")
            /\ ("metadata" \in tasks[t].steps /\ ~tasks[t].metadata.accessible) =>
                  /\ tasks[t].steps = {"metadata"}
                  /\ tasks[t].made = {}
                  /\ Finished(t) => EndsWithError(t, "not_accessible")

\* C19: the acceptance policy turns a repository away exactly when its
\* size exceeds the ceiling or its disabled flag is set, with the matching
\* reason; every other repository, an archived one included, goes on to
\* the cache lookup.
C19_PolicyExact ==
    \A t \in DOMAIN tasks :
        (IsTeardown(t) /\ "policy" \in tasks[t].steps) =>
            LET metadata == tasks[t].metadata
                tooLarge == metadata.size > MAX_REPO_SIZE_MB * 1024
            IN /\ "lookup" \notin tasks[t].steps
                     <=> (tooLarge \/ metadata.disabled)
               /\ tooLarge => tasks[t].error = "too_large"
               /\ (~tooLarge /\ metadata.disabled) =>
                     tasks[t].error = "disabled"

\* An archived repository of exactly the ceiling's size has reached the
\* cache lookup
C19_Witness ==
    \E t \in DOMAIN tasks :
        /\ IsTeardown(t)
        /\ tasks[t].metadata.archived
        /\ ~tasks[t].metadata.disabled
        /\ tasks[t].metadata.size = MAX_REPO_SIZE_MB * 1024
        /\ "lookup" \in tasks[t].steps

\* C20: once the generation step of a teardown has run past
\* OPERATION_TIMEOUT, the only step the run takes from there is the abort:
\* it goes to the failure handling with an error, emits no further chunk
\* and does not go on to persist.
C20_TimeoutAborts ==
    [][ \A t \in DOMAIN tasks :
            ( /\ IsTeardown(t)
              /\ tasks[t].elapsed > OPERATION_TIMEOUT
              /\ tasks[t].pc \in {"sdk_recv", "chunk_processor"}
              /\ tasks'[t] # tasks[t] )
            => /\ tasks'[t].pc \in {"finally", "raised"}
               /\ tasks'[t].error # None
               /\ "persist" \notin tasks'[t].steps
               /\ Deltas(t, tasks[t].streamId)' = Deltas(t, tasks[t].streamId)
      ]_vars

\* C21: once the connection of an in-flight stream is gone, the only step
\* the stream's task takes is its cancellation: it ends, hands no further
\* envelope to the transport, and leaves no working directory behind.
C21_DisconnectCancels ==
    [][ \A t \in DOMAIN tasks :
            ( /\ tasks[t].sid \notin active_connections
              /\ ~Finished(t)
              /\ tasks'[t] # tasks[t] )
            => /\ Finished(t)'
               /\ tasks'[t].sent = tasks[t].sent
               /\ tasks'[t].made \cap tempDirs' = {} ]_vars

\* The stream of task t is live: its start was acknowledged ok and neither
\* has an end been emitted for the acknowledged stream id nor is the task over
Live(t) ==
    /\ tasks[t].sent # <<>>
    /\ tasks[t].sent[1].type = "ack" /\ tasks[t].sent[1].ok
    /\ ~Finished(t)
    /\ EndsFor(tasks[t].ackStreamId) = {}

\* C22: at every moment, no two live streams belong to the same
\* (connection, request id) pair.
C22_OneLivePerRequest ==
    \A t1 \in DOMAIN tasks, t2 \in DOMAIN tasks :
        ( /\ t1 # t2
          /\ Live(t1) /\ Live(t2)
          /\ tasks[t1].sid = tasks[t2].sid )
        => tasks[t1].requestId # tasks[t2].requestId

\* The end envelopes task t emitted, in emission order
Ends(t) == SelectSeq(tasks[t].sent, IsEnd)

\* C23: when save_teardown fails after the generation has completed
\* (artifact file missing, or the copy failing), the run is over with what
\* the client would have seen anyway: exactly one end envelope, of finish
\* reason stop, on the acknowledged stream, and no end of finish reason
\* error.
C23_PersistFailureSilent ==
    \A t \in DOMAIN tasks :
        ( /\ IsTeardown(t)
          /\ Finished(t)
          /\ "persist" \in tasks[t].steps
          /\ tasks[t].error \in {"persist_failed", "artifact_missing"} )
        => /\ Len(Ends(t)) = 1
           /\ Ends(t)[1].finishReason = "stop"
           /\ Ends(t)[1].streamId = tasks[t].ackStreamId

\* The entries stored at key in the store st
EntriesAt(st, key) == { f \in st.files : f[1] = key }

\* create_repo_folder twice for key leaves what one call leaves
CreateIdempotent(key) ==
    create_repo_folder(create_repo_folder(storage, key), key)
        = create_repo_folder(storage, key)

\* persisting a and then b at key succeeds both times and leaves exactly
\* one entry at key, holding b
PersistTwice(key, a, b) ==
    LET first == save_teardown_analysis(storage, key, a)
        second == save_teardown_analysis(first.st, key, b)
    IN /\ first.ok /\ second.ok
       /\ EntriesAt(second.st, key) = {<<key, b>>}
       /\ \A k \in StorageKeys \ {key} :
             EntriesAt(second.st, k) = EntriesAt(storage, k)

Raced(t1, t2) ==
    /\ t1 < t2
    /\ \A t \in {t1, t2} :
          /\ IsTeardown(t)
          /\ Accepted(tasks[t])
          /\ tasks[t].lookup = "miss"
          /\ "persist" \in tasks[t].steps
          /\ Finished(t)
    /\ tasks[t1].metadata.full_name = tasks[t2].metadata.full_name
    /\ tasks[t1].metadata.sha = tasks[t2].metadata.sha

\* C26: when two teardown runs for the same uncached cache key run
\* concurrently, then under every interleaving, once both are over, each
\* stream has exactly one end envelope on its acknowledged stream, no working
\* directory of either run exists, and the cache holds an artifact at that
\* key.
C26_BenignRace ==
    \A t1 \in DOMAIN tasks, t2 \in DOMAIN tasks :
        Raced(t1, t2) =>
            /\ \A t \in {t1, t2} :
                  /\ Len(Ends(t)) = 1
                  /\ Ends(t)[1].streamId = tasks[t].ackStreamId
                  /\ tasks[t].made \cap tempDirs = {}
            /\ tasks[t1].key = tasks[t2].key
            /\ tasks[t1].key \in DOMAIN analyses
            /\ analyses[tasks[t1].key] \in Artifacts

C28_ProductionOrder ==
    \A t \in DOMAIN tasks :
        tasks[t].kind \in {"openai", "query", "teardown"} =>
            LET d == Deltas(t, tasks[t].ackStreamId)
            IN /\ \A i \in DOMAIN d, j \in DOMAIN d :
                     i < j => IF tasks[t].kind = "openai" THEN d[i] < d[j]
                              ELSE d[i] <= d[j]
               /\ \A i \in DOMAIN d : d[i] <= tasks[t].got

\* A backend stream whose first and second chunk were both emitted
C28_Witness ==
    \E t \in DOMAIN tasks :
        /\ tasks[t].kind = "openai"
        /\ Deltas(t, tasks[t].ackStreamId) = <<1, 2>>

\* The replay of task t failed to open or read the artifact in this step
ReadFails(t) ==
    /\ t \in DOMAIN tasks
    /\ tasks[t].pc = "cached_read"
    /\ tasks'[t].error = "read_error"

PayloadDefect(call) ==
    /\ IsStartCall(call)
    /\ ControlDefects(call.env) = 0
    /\ call.env.actor \in CodecOfHandler(call.handler)
    /\ ~DataValid(call.env.data, PayloadType(call.handler))

\* C30: a start envelope that is structurally valid but whose payload fails
\* the actor's own input shape is answered with a fail acknowledgement of
\* code invalid_data (not invalid_envelope); no stream id is minted and no
\* task is spawned.
C30_InvalidDataRejected ==
    [][ PayloadDefect(last') =>
            /\ last'.outcome = "fail"
            /\ last'.code = "invalid_data"
            /\ nextUuid' = nextUuid
            /\ tasks' = tasks ]_vars

\* In this step task t builds an envelope of actor "claude": a chunk for a
\* text or tool block, or the error end of the teardown failure handler
BuildsEnvelope(t) ==
    /\ t \in DOMAIN tasks
    /\ tasks[t].kind \in {"teardown", "query"}
    /\ tasks'[t] # tasks[t]
    /\ \/ /\ tasks[t].pc = "chunk_processor"
          /\ tasks[t].blocks # <<>>
          /\ Head(tasks[t].blocks) \in {"text", "tool"}
       \/ /\ tasks[t].kind = "teardown"
          /\ tasks[t].error = None
          /\ tasks'[t].error # None

\* C31: every envelope the server builds for emission validates under the
\* Envelope codec, its actor being in the codec's actor set: the step that
\* builds a chunk envelope of the repository-analysis actor, or the error
\* end of the teardown failure handler, hands that envelope to the
\* transport and no ValidationError is raised.
C31_EnvelopesConstructible ==
    [][ \A t \in 1..MaxStarts :
          BuildsEnvelope(t) =>
              /\ Len(tasks'[t].sent) = Len(tasks[t].sent) + 1
              /\ tasks'[t].sent[Len(tasks'[t].sent)].actor \in CodecOf(tasks[t])
              /\ tasks'[t].error # "validation_error" ]_vars

\* C32: the finish reason of every end envelope handed to the transport is
\* stop or error, whatever finish marker the generation backend reported.
C32_TerminalReasons ==
    \A t \in DOMAIN tasks :
        \A i \in DOMAIN tasks[t].sent :
            IsEnd(tasks[t].sent[i]) =>
                tasks[t].sent[i].finishReason \in {"stop", "error"}

\* process_repo_url returned to the run of task t without raising
Returned(t) ==
    /\ IsTeardown(t)
    /\ "lookup" \in tasks[t].steps
    /\ tasks[t].error \notin {"clone_failed", "clone_error"}

\* C33: whenever process_repo_url returns, its result holds exactly one of
\* the two alternatives: a cached artifact path and no working directory,
\* or a freshly cloned working directory and no cached path; never neither
\* and never both.
C33_ExactlyOneAlternative ==
    \A t \in DOMAIN tasks :
        Returned(t) =>
            \/ tasks[t].lookup = "hit" /\ tasks[t].repoDir = 0
            \/ tasks[t].lookup = "miss" /\ tasks[t].repoDir # 0

\* The chunk envelopes task t emitted, in emission order
Chunks(t) ==
    SelectSeq(tasks[t].sent, LAMBDA m : m.type = "env" /\ m.modifier = "chunk")

RECURSIVE Concat(_)
Concat(ss) == IF ss = <<>> THEN <<>> ELSE Head(ss) \o Concat(Tail(ss))

\* C34: once stream_chunks_from_file is over it has emitted exactly one end
\* envelope, after its chunks.  The chunks have seq 1..n and at most
\* CHUNK_SIZE characters each.  If the file does not exist there is no chunk
\* and the end has finish reason error and seq 1; an end of finish reason
\* stop has seq n+1 and the chunks concatenate to the file content; an end
\* of finish reason error (reading or emitting failed) has seq one more
\* than the last chunk's, a chunk whose own emit failed counting as the last
\* chunk.  (A run that could not even emit its error end is left aside.)
C34_FileStreamOneEnd ==
    \A t \in DOMAIN tasks :
        (tasks[t].kind = "file" /\ tasks[t].pc = "done") =>
            LET n == Len(Chunks(t))
                end == Ends(t)[1]
            IN /\ Len(Ends(t)) = 1
               /\ IsEnd(tasks[t].sent[Len(tasks[t].sent)])
               /\ \A i \in 1..n : /\ Chunks(t)[i].seq = i
                                  /\ Len(Chunks(t)[i].delta) <= CHUNK_SIZE
               /\ end.finishReason \in {"stop", "error"}
               /\ \/ end.seq = n + 1
                  \/ /\ end.finishReason = "error"
                     /\ tasks[t].content # <<>>
                     /\ end.seq = n + 2
               /\ tasks[t].key \notin DOMAIN analyses =>
                     n = 0 /\ end.finishReason = "error"
               /\ end.finishReason = "stop" =>
                     Concat([i \in 1..n |-> Chunks(t)[i].delta])
                        = analyses[tasks[t].key]

\* The run of task t ends in this step and the deletion of its working
\* directory fails: the directory is still there afterwards
CleanupFails(t) ==
    /\ t \in DOMAIN tasks
    /\ IsTeardown(t)
    /\ ~Finished(t)
    /\ Finished(t)'
    /\ tasks[t].repoDir # 0
    /\ tasks[t].repoDir \in tempDirs'

C36_StreamsIndependent ==
    \A t \in DOMAIN tasks :
        /\ \A u \in DOMAIN tasks :
              t # u => tasks[t].ackStreamId # tasks[u].ackStreamId
        /\ \A i \in DOMAIN Emitted(t) :
              LET m == Emitted(t)[i]
              IN /\ m.to = tasks[t].sid
                 /\ m.streamId = tasks[t].ackStreamId
                 /\ m.requestId = tasks[t].requestId
                 /\ m.modifier = "chunk" => m.seq = m.delta
                 /\ m.seq <= tasks[t].got
                 /\ \A j \in DOMAIN Emitted(t) : j < i => Emitted(t)[j].seq < m.seq

\* Two streams of one connection are both under way: each has emitted a
\* chunk and neither is over
C36_Witness ==
    /\ Len(tasks) = 2
    /\ tasks[1].sid = tasks[2].sid
    /\ \A t \in {1, 2} :
          /\ ~Finished(t)
          /\ Len(Deltas(t, tasks[t].ackStreamId)) >= 1
    /\ Len(Deltas(1, tasks[1].ackStreamId)) = 2

\* C37: the local-filesystem and the object-store adaptor are
\* observationally equivalent: after every sequence of create_repo_folder
\* and save_teardown_analysis calls given to both, find_cached_teardown
\* reports the same present/absent answer for every key and the next
\* save_teardown_analysis reports the same success/failure for every key and
\* artifact, a key whose folder was never created included.
C37_AdaptorsEquivalent ==
    storage.variant \in StorageVariants =>
        \A key \in StorageKeys :
            /\ (StorageAdaptor_find_cached_teardown(storage, key) = NoPath)
                 <=> (StorageAdaptor_find_cached_teardown(TwinOf(storage), key) = NoPath)
            /\ \A a \in Artifacts :
                  save_teardown_analysis(storage, key, a).ok
                     = save_teardown_analysis(TwinOf(storage), key, a).ok

\* C38: the working directory that the Claude query actor creates when it
\* accepts a start is gone once the task of that stream is over, whether the
\* generation returned or raised.
C38_QueryDirRemoved ==
    \A t \in DOMAIN tasks :
        (tasks[t].kind = "query" /\ Finished(t)) => tasks[t].cwd \notin tempDirs

\* C39: after any sequence of connect and disconnect events the registry
\* active_connections holds exactly the ids of the sessions that have
\* connected and not since disconnected; a step that changes it is a connect
\* or a disconnect (no start is handled, no task runs, no stream id is
\* minted in it) and changes it by the one id of that event; and a
\* disconnect never fails with a KeyError for an id absent from it.
C39_RegistryExact ==
    [][ /\ active_connections' = sessions'
        /\ last'.code # "KeyError"
        /\ active_connections' # active_connections =>
              /\ tasks' = tasks
              /\ nextUuid' = nextUuid
              /\ budget' = budget
              /\ ~IsStartCall(last')
              /\ \E sid \in Sids :
                    \/ /\ sid \notin active_connections
                       /\ active_connections' = active_connections \cup {sid}
                    \/ /\ sid \in active_connections
                       /\ active_connections' = active_connections \ {sid} ]_vars

\* A client connected, started a stream and disconnected while another
\* client is connected
C39_Witness ==
    /\ active_connections # {}
    /\ \E t \in DOMAIN tasks : tasks[t].sid \notin active_connections

====
